---- MODULE Spec2Model ----
(***************************************************************************)
(* EPANET-GoldSim bridge mapping generator (scripts/generate_mapping.py).  *)
(*                                                                         *)
(* A Python string is modelled as a sequence of atoms.  An atom is either  *)
(* one character ("\n", " ", ";", ":", "[", "]", a digit, a letter) or a   *)
(* whole word ("Hydraulic", "DEMAND") that the texts of the model never    *)
(* split.  All string operations of the program (regex search, split,     *)
(* strip, upper, int) are computed on these sequences as Python computes   *)
(* them on characters.                                                     *)
(***************************************************************************)
EXTENDS Integers, Sequences, FiniteSets, TLC

VARIABLES
  inp_file,     \* the source file: [readable, content]
  parser,       \* EpanetInpParser: the seven lists and the two options
  parse_ret,    \* outcome of parse(): "none" | "True" | "False" | "ValueError"
  inputs,       \* MappingGenerator.inputs
  outputs,      \* MappingGenerator.outputs
  last,         \* the last builder call: [op, arg, ret]
  out_file,     \* the JSON output file: [written, config]
  args,         \* the command line of main: [inputs, outputs, quality]
  pc,           \* position of main
  exit_code     \* exit status of the run (-1 while running)

vars == <<inp_file, parser, parse_ret, inputs, outputs, last, out_file, args, pc, exit_code>>

----------------------------------------------------------------------------
(* Bounds of the model *)

MaxLines == 3
MaxEntries == 2
MaxArgs == 2

----------------------------------------------------------------------------
(* Strings *)

NL == "\n"
SP == " "
SEMI == ";"
COLON == ":"
LB == "["
RB == "]"

Min(S) == CHOOSE m \in S : \A k \in S : m <= k
Max(S) == CHOOSE m \in S : \A k \in S : m >= k

\* str.upper() of one atom; re.IGNORECASE compares the upper-cased atoms.
\* Atoms that are not listed have no lower-case letter.
UpperOf ==
  [c \in {"junctions", "times", "options", "Hydraulic", "hydraulic", "Timestep",
          "Quality", "quality", "none", "Chemical", "Pattern", "Units",
          "a", "b", "x"} |->
     CASE c = "junctions" -> "JUNCTIONS"
       [] c = "times" -> "TIMES"
       [] c = "options" -> "OPTIONS"
       [] c = "Hydraulic" -> "HYDRAULIC"
       [] c = "hydraulic" -> "HYDRAULIC"
       [] c = "Timestep" -> "TIMESTEP"
       [] c = "Quality" -> "QUALITY"
       [] c = "quality" -> "QUALITY"
       [] c = "none" -> "NONE"
       [] c = "Chemical" -> "CHEMICAL"
       [] c = "Pattern" -> "PATTERN"
       [] c = "Units" -> "UNITS"
       [] c = "a" -> "A"
       [] c = "b" -> "B"
       [] c = "x" -> "X"]

Upper(c) == IF c \in DOMAIN UpperOf THEN UpperOf[c] ELSE c

UpperStr(s) == [i \in 1..Len(s) |-> Upper(s[i])]

\* Python's str.isspace() on the atoms a line can hold.
IsSpace(c) == c \in {" ", "\t", "\n"}

\* str.split(sep): the parts between the occurrences of sep, always n+1 parts.
RECURSIVE Split(_, _)
Split(s, sep) ==
  LET hits == {i \in 1..Len(s) : s[i] = sep}
  IN IF hits = {} THEN <<s>>
     ELSE LET i == Min(hits)
          IN <<SubSeq(s, 1, i - 1)>> \o Split(SubSeq(s, i + 1, Len(s)), sep)

\* str.strip(): leading and trailing whitespace removed.
Strip(s) ==
  LET keep == {i \in 1..Len(s) : ~IsSpace(s[i])}
  IN IF keep = {} THEN <<>> ELSE SubSeq(s, Min(keep), Max(keep))

\* str.split() without argument: the maximal runs of non-whitespace.
RECURSIVE SplitWS(_)
SplitWS(s) ==
  LET keep == {i \in 1..Len(s) : ~IsSpace(s[i])}
  IN IF keep = {} THEN <<>>
     ELSE LET b == Min(keep)
              stops == {i \in b..Len(s) : IsSpace(s[i])}
              e == IF stops = {} THEN Len(s) ELSE Min(stops) - 1
          IN <<SubSeq(s, b, e)>> \o SplitWS(SubSeq(s, e + 1, Len(s)))

\* re.search(re.escape(pat), s, re.IGNORECASE): 1-based start of the first
\* match, 0 for no match.
MatchAt(pat, s, i) ==
  /\ i + Len(pat) - 1 <= Len(s)
  /\ \A k \in 1..Len(pat) : Upper(s[i + k - 1]) = Upper(pat[k])

\* F applied to the value of e, with e evaluated once.
With(e, F(_)) == CHOOSE y \in {F(x) : x \in {e}} : TRUE

Search(pat, s) ==
  LET hits == {i \in 1..Len(s) : MatchAt(pat, s, i)}
  IN IF hits = {} THEN 0 ELSE Min(hits)

\* content[section_start:section_end]: from the end of the header match to the
\* first "\n[" after it (re.search(r'\n\[', ...)), or to the end of the text.
SectionContent(content, header) ==
  With(SubSeq(content, Search(header, content) + Len(header), Len(content)),
       LAMBDA rest :
         LET next_section == {j \in 1..(Len(rest) - 1) : rest[j] = NL /\ rest[j + 1] = LB}
         IN IF next_section = {} THEN rest
            ELSE SubSeq(rest, 1, Min(next_section) - 1))

\* Mutant: comments are not removed.
CleanLineKeepsComment(line) == Strip(line)

\* line.split(';')[0].strip()
CleanLine(line) == Strip(Split(line, SEMI)[1])

----------------------------------------------------------------------------
(* EpanetInpParser *)

\* The body of the for loop of _parse_section, applied to the lines in order.
RECURSIVE SectionLoop(_, _)
SectionLoop(lines, output_list) ==
  IF lines = <<>> THEN output_list
  ELSE LET line == CleanLine(Head(lines))
           parts == SplitWS(line)
       IN SectionLoop(Tail(lines),
                      IF line = <<>> THEN output_list
                      ELSE IF parts # <<>> THEN Append(output_list, parts[1])
                      ELSE output_list)

_parse_section(content, section_name, output_list) ==
  IF Search(section_name, content) = 0 THEN output_list
  ELSE SectionLoop(Split(SectionContent(content, section_name), NL), output_list)

\* int(s) for the atoms of the model (digits and letters): the value, or
\* ValueError.  Signs, underscores and inner whitespace are not in the alphabet.
Digits == {"0", "1", "2", "3", "4", "5", "6", "7", "8", "9"}
DigitVal(c) ==
  CASE c = "0" -> 0 [] c = "1" -> 1 [] c = "2" -> 2 [] c = "3" -> 3 [] c = "4" -> 4
    [] c = "5" -> 5 [] c = "6" -> 6 [] c = "7" -> 7 [] c = "8" -> 8 [] c = "9" -> 9

IntOk(s) == s # <<>> /\ \A i \in 1..Len(s) : s[i] \in Digits

RECURSIVE IntVal(_)
IntVal(s) ==
  IF s = <<>> THEN 0
  ELSE 10 * IntVal(SubSeq(s, 1, Len(s) - 1)) + DigitVal(s[Len(s)])

\* _parse_time_string: [raised, value].  int() raises ValueError on a part that
\* is no integer literal, and nothing in the parser catches it.
_parse_time_string(time_str) ==
  LET parts == Split(time_str, COLON)
  IN IF Len(parts) = 2 THEN
       IF IntOk(parts[1]) /\ IntOk(parts[2])
       THEN [raised |-> FALSE, value |-> IntVal(parts[1]) * 3600 + IntVal(parts[2]) * 60]
       ELSE [raised |-> TRUE, value |-> 0]
     ELSE IF Len(parts) = 3 THEN
       IF IntOk(parts[1]) /\ IntOk(parts[2]) /\ IntOk(parts[3])
       THEN [raised |-> FALSE,
             value |-> IntVal(parts[1]) * 3600 + IntVal(parts[2]) * 60 + IntVal(parts[3])]
       ELSE [raised |-> TRUE, value |-> 0]
     ELSE [raised |-> FALSE, value |-> 3600]

\* re.match(r'Hydraulic\s+Timestep', line, re.IGNORECASE): a match at the start
\* of the line, with nothing required after "Timestep".
MatchHydraulicTimestep(line) ==
  /\ Len(line) >= 3
  /\ Upper(line[1]) = "HYDRAULIC"
  /\ \E k \in 3..Len(line) :
       /\ \A j \in 2..(k - 1) : IsSpace(line[j])
       /\ Upper(line[k]) = "TIMESTEP"

\* Mutant: the break follows the first matching line, with or without a value.
RECURSIVE TimesLoopBreaksAlways(_, _)
TimesLoopBreaksAlways(lines, hydraulic_timestep) ==
  IF lines = <<>> THEN [raised |-> FALSE, value |-> hydraulic_timestep]
  ELSE LET line == CleanLine(Head(lines))
           parts == SplitWS(line)
       IN IF line = <<>> THEN TimesLoopBreaksAlways(Tail(lines), hydraulic_timestep)
          ELSE IF MatchHydraulicTimestep(line)
               THEN IF Len(parts) >= 3
                    THEN LET r == _parse_time_string(parts[3])
                         IN IF r.raised THEN [raised |-> TRUE, value |-> hydraulic_timestep]
                            ELSE r
                    ELSE [raised |-> FALSE, value |-> hydraulic_timestep]
               ELSE TimesLoopBreaksAlways(Tail(lines), hydraulic_timestep)

\* The for loop of _parse_times_section: [raised, value], value the timestep
\* after the loop.  The break is inside "if len(parts) >= 3".
RECURSIVE TimesLoop(_, _)
TimesLoop(lines, hydraulic_timestep) ==
  IF lines = <<>> THEN [raised |-> FALSE, value |-> hydraulic_timestep]
  ELSE LET line == CleanLine(Head(lines))
           parts == SplitWS(line)
       IN IF line = <<>> THEN TimesLoop(Tail(lines), hydraulic_timestep)
          ELSE IF MatchHydraulicTimestep(line) /\ Len(parts) >= 3
               THEN LET r == _parse_time_string(parts[3])
                    IN IF r.raised THEN [raised |-> TRUE, value |-> hydraulic_timestep]
                       ELSE r
               ELSE TimesLoop(Tail(lines), hydraulic_timestep)

TimesHeader == <<LB, "TIMES", RB>>
OptionsHeader == <<LB, "OPTIONS", RB>>

_parse_times_section(content, hydraulic_timestep) ==
  IF Search(TimesHeader, content) = 0
  THEN [raised |-> FALSE, value |-> hydraulic_timestep]
  ELSE TimesLoop(Split(SectionContent(content, TimesHeader), NL), hydraulic_timestep)

\* re.match(r'Quality', line, re.IGNORECASE): the line starts with "Quality".
MatchQuality(line) == Len(line) >= 1 /\ Upper(line[1]) = "QUALITY"

\* Mutant: the quality type is compared without upper().
QualityValueNoUpper(parts) == parts[2] # <<"NONE">>

\* quality_type = parts[1].upper(); quality_enabled = (quality_type != 'NONE')
QualityValue(parts) == UpperStr(parts[2]) # <<"NONE">>

\* The for loop of _parse_quality_section; the break is inside
\* "if len(parts) >= 2".
RECURSIVE QualityLoop(_, _)
QualityLoop(lines, quality_enabled) ==
  IF lines = <<>> THEN quality_enabled
  ELSE LET line == CleanLine(Head(lines))
           parts == SplitWS(line)
       IN IF line = <<>> THEN QualityLoop(Tail(lines), quality_enabled)
          ELSE IF MatchQuality(line) /\ Len(parts) >= 2
               THEN QualityValue(parts)
               ELSE QualityLoop(Tail(lines), quality_enabled)

_parse_quality_section(content, quality_enabled) ==
  IF Search(OptionsHeader, content) = 0 THEN quality_enabled
  ELSE QualityLoop(Split(SectionContent(content, OptionsHeader), NL), quality_enabled)

\* EpanetInpParser.__init__
NewParser ==
  [junctions |-> <<>>, reservoirs |-> <<>>, tanks |-> <<>>, pipes |-> <<>>,
   pumps |-> <<>>, valves |-> <<>>, patterns |-> <<>>,
   hydraulic_timestep |-> 3600, quality_enabled |-> FALSE]

SectionHeader(word) == <<LB, word, RB>>

\* Mutant: an ID already taken by an earlier category is left out of the
\* later ones.
ParseContentDisjoint(p, content) ==
  LET Without(list, seen) == SelectSeq(list, LAMBDA id : \A k \in 1..Len(seen) : seen[k] # id)
      j == _parse_section(content, SectionHeader("JUNCTIONS"), p.junctions)
      r == Without(_parse_section(content, SectionHeader("RESERVOIRS"), p.reservoirs), j)
      t == Without(_parse_section(content, SectionHeader("TANKS"), p.tanks), j \o r)
      pi == Without(_parse_section(content, SectionHeader("PIPES"), p.pipes), j \o r \o t)
      pu == Without(_parse_section(content, SectionHeader("PUMPS"), p.pumps),
                    j \o r \o t \o pi)
      v == Without(_parse_section(content, SectionHeader("VALVES"), p.valves),
                   j \o r \o t \o pi \o pu)
      pa == Without(_parse_section(content, SectionHeader("PATTERNS"), p.patterns),
                    j \o r \o t \o pi \o pu \o v)
      lists == [p EXCEPT !.junctions = j, !.reservoirs = r, !.tanks = t, !.pipes = pi,
                         !.pumps = pu, !.valves = v, !.patterns = pa]
  IN With(_parse_times_section(content, p.hydraulic_timestep),
          LAMBDA ts :
            IF ts.raised THEN [ret |-> "ValueError", parser |-> lists]
            ELSE [ret |-> "True",
                  parser |-> [lists EXCEPT
                                !.hydraulic_timestep = ts.value,
                                !.quality_enabled = _parse_quality_section(content, @)]])

\* parse() on a readable file: [ret, parser].  The seven lists are filled first;
\* a ValueError of _parse_times_section leaves the timestep and the quality
\* flag as they were and ends parse() without a return value.
ParseContent(p, content) ==
  LET lists == [p EXCEPT
                  !.junctions = _parse_section(content, SectionHeader("JUNCTIONS"), @),
                  !.reservoirs = _parse_section(content, SectionHeader("RESERVOIRS"), @),
                  !.tanks = _parse_section(content, SectionHeader("TANKS"), @),
                  !.pipes = _parse_section(content, SectionHeader("PIPES"), @),
                  !.pumps = _parse_section(content, SectionHeader("PUMPS"), @),
                  !.valves = _parse_section(content, SectionHeader("VALVES"), @),
                  !.patterns = _parse_section(content, SectionHeader("PATTERNS"), @)]
  IN With(_parse_times_section(content, p.hydraulic_timestep),
          LAMBDA t :
            IF t.raised THEN [ret |-> "ValueError", parser |-> lists]
            ELSE [ret |-> "True",
                  parser |-> [lists EXCEPT
                                !.hydraulic_timestep = t.value,
                                !.quality_enabled = _parse_quality_section(content, @)]])

parse(p, file) ==
  IF ~file.readable THEN [ret |-> "False", parser |-> p]
  ELSE ParseContent(p, file.content)

get_all_nodes(p) == p.junctions \o p.reservoirs \o p.tanks
\* Mutant: pumps listed before pipes.
get_all_links_pumps_first(p) == p.pumps \o p.pipes \o p.valves
get_all_links(p) == p.pipes \o p.pumps \o p.valves

----------------------------------------------------------------------------
(* MappingGenerator *)

InList(x, list) == \E i \in 1..Len(list) : list[i] = x

\* Mutant: the link lists are tested before the node lists.
_get_object_type_links_first(p, element_id) ==
  IF InList(element_id, p.pipes) \/ InList(element_id, p.pumps)
       \/ InList(element_id, p.valves)
  THEN "LINK"
  ELSE IF InList(element_id, p.junctions) \/ InList(element_id, p.reservoirs)
            \/ InList(element_id, p.tanks)
  THEN "NODE"
  ELSE IF InList(element_id, p.patterns) THEN "PATTERN"
  ELSE "None"

\* "None" stands for Python's None.
_get_object_type(p, element_id) ==
  IF InList(element_id, p.junctions) \/ InList(element_id, p.reservoirs)
       \/ InList(element_id, p.tanks)
  THEN "NODE"
  ELSE IF InList(element_id, p.pipes) \/ InList(element_id, p.pumps)
            \/ InList(element_id, p.valves)
  THEN "LINK"
  ELSE IF InList(element_id, p.patterns) THEN "PATTERN"
  ELSE "None"

_is_valid_input_property(object_type, property_name) ==
  property_name \in
    (CASE object_type = "NODE" -> {<<"DEMAND">>}
       [] object_type = "LINK" -> {<<"STATUS">>, <<"SETTING">>}
       [] object_type = "PATTERN" -> {<<"MULTIPLIER">>}
       [] OTHER -> {})

\* Mutant: the PATTERN row of the input table copied into the output table.
_is_valid_output_property_with_pattern(object_type, property_name) ==
  property_name \in
    (CASE object_type = "NODE" ->
            {<<"PRESSURE">>, <<"HEAD">>, <<"DEMAND">>, <<"TANKLEVEL">>, <<"QUALITY">>}
       [] object_type = "LINK" ->
            {<<"FLOW">>, <<"VELOCITY">>, <<"HEADLOSS">>, <<"STATUS">>, <<"SETTING">>,
             <<"QUALITY">>}
       [] object_type = "PATTERN" -> {<<"MULTIPLIER">>}
       [] OTHER -> {})

_is_valid_output_property(object_type, property_name) ==
  property_name \in
    (CASE object_type = "NODE" ->
            {<<"PRESSURE">>, <<"HEAD">>, <<"DEMAND">>, <<"TANKLEVEL">>, <<"QUALITY">>}
       [] object_type = "LINK" ->
            {<<"FLOW">>, <<"VELOCITY">>, <<"HEADLOSS">>, <<"STATUS">>, <<"SETTING">>,
             <<"QUALITY">>}
       [] OTHER -> {})

Entry(i, n, t, pr) == [index |-> i, name |-> n, object_type |-> t, property |-> pr]

\* add_input: [ret, inputs]
add_input(p, ins, element_spec) ==
  LET parts == Split(element_spec, COLON)
  IN IF Len(parts) # 2 THEN [ret |-> "False", inputs |-> ins]
     ELSE LET element_id == parts[1]
              property_name == parts[2]
              object_type == _get_object_type(p, element_id)
          IN IF object_type = "None" THEN [ret |-> "False", inputs |-> ins]
             ELSE IF ~_is_valid_input_property(object_type, property_name)
             THEN [ret |-> "False", inputs |-> ins]
             ELSE [ret |-> "True",
                   inputs |-> Append(ins, Entry(Len(ins) + 1, element_id, object_type,
                                                property_name))]

\* Mutant: the entry is appended before the property is validated.
add_output_appends_first(p, outs, element_spec) ==
  LET parts == Split(element_spec, COLON)
  IN IF Len(parts) # 2 THEN [ret |-> "False", outputs |-> outs]
     ELSE LET element_id == parts[1]
              property_name == parts[2]
              object_type == _get_object_type(p, element_id)
              appended == Append(outs, Entry(Len(outs), element_id, object_type,
                                             property_name))
          IN IF object_type = "None" THEN [ret |-> "False", outputs |-> outs]
             ELSE IF ~_is_valid_output_property(object_type, property_name)
             THEN [ret |-> "False", outputs |-> appended]
             ELSE [ret |-> "True", outputs |-> appended]

\* add_output: [ret, outputs]
add_output(p, outs, element_spec) ==
  LET parts == Split(element_spec, COLON)
  IN IF Len(parts) # 2 THEN [ret |-> "False", outputs |-> outs]
     ELSE LET element_id == parts[1]
              property_name == parts[2]
              object_type == _get_object_type(p, element_id)
          IN IF object_type = "None" THEN [ret |-> "False", outputs |-> outs]
             ELSE IF ~_is_valid_output_property(object_type, property_name)
             THEN [ret |-> "False", outputs |-> outs]
             ELSE [ret |-> "True",
                   outputs |-> Append(outs, Entry(Len(outs), element_id, object_type,
                                                  property_name))]

\* One for loop of generate_default_outputs: an entry per name, index len(outputs).
RECURSIVE AppendEach(_, _, _, _)
AppendEach(outs, names, object_type, property_name) ==
  IF names = <<>> THEN outs
  ELSE AppendEach(Append(outs, Entry(Len(outs), Head(names), object_type, property_name)),
                  Tail(names), object_type, property_name)

generate_default_outputs(p, outs, include_quality) ==
  LET tank_levels == AppendEach(outs, p.tanks, "NODE", <<"TANKLEVEL">>)
      pressures == AppendEach(tank_levels, p.junctions, "NODE", <<"PRESSURE">>)
      flows == AppendEach(pressures, get_all_links(p), "LINK", <<"FLOW">>)
  IN IF include_quality
     THEN AppendEach(AppendEach(flows, get_all_nodes(p), "NODE", <<"QUALITY">>),
                     get_all_links(p), "LINK", <<"QUALITY">>)
     ELSE flows

ElapsedTime == Entry(0, <<"ElapsedTime">>, "SYSTEM", <<"ELAPSEDTIME">>)

\* Mutant: input_count counts the added inputs only.
ConfigCountsAddedInputs(p, ins, outs) ==
  [hydraulic_timestep |-> p.hydraulic_timestep,
   input_count |-> Len(ins),
   output_count |-> Len(outs),
   inputs |-> <<ElapsedTime>> \o ins,
   outputs |-> outs]

\* The config dictionary of generate_json (version, logging level, file name and
\* hash are constants of the run and are left out).
Config(p, ins, outs) ==
  LET all_inputs == <<ElapsedTime>> \o ins
  IN [hydraulic_timestep |-> p.hydraulic_timestep,
      input_count |-> Len(all_inputs),
      output_count |-> Len(outs),
      inputs |-> all_inputs,
      outputs |-> outs]

\* What the write of generate_json can do: succeed; fail in open(), leaving the
\* file as it was; fail in json.dump after open() truncated the file.
WriteOutcomes == {"ok", "open_fails", "dump_fails"}

\* generate_json: [ret, out_file]
generate_json(p, ins, outs, file, outcome) ==
  IF outcome = "ok"
  THEN [ret |-> "True", out_file |-> [written |-> "complete", config |-> <<Config(p, ins, outs)>>]]
  ELSE IF outcome = "open_fails" THEN [ret |-> "False", out_file |-> file]
  ELSE [ret |-> "False", out_file |-> [written |-> "partial", config |-> <<>>]]

----------------------------------------------------------------------------
(* Source files of the model: up to MaxLines lines joined by "\n". *)

Hdr(word) == <<LB, word, RB>>

\* Lines of element sections.
SectionLines ==
  { Hdr("JUNCTIONS"), Hdr("TANKS"), Hdr("PIPES"),
    Hdr("junctions") \o <<SP, "a">>,       \* an ID on the header's own line
    <<"a", SP, "b">>,                        \* ID a, one more column
    <<SP, "b", "a", SEMI, "a">>,             \* leading blank, ID ba, a comment
    <<SEMI, "a">>,                           \* comment only
    <<>>,                                    \* empty
    <<SP, LB, "PIPES", RB>>,                 \* a header that does not begin its line
    <<LB>> }                                 \* a line beginning with '['

\* Lines of the [TIMES] section.
HT == <<"Hydraulic", SP, "Timestep">>
TimesLines ==
  { Hdr("TIMES"),
    HT,                                      \* no third token
    HT \o <<SP, "0", COLON, "0", "5">>,      \* 0:05 = 300
    <<"hydraulic", SP, SP, "Timestep", SP, "1", COLON, "0", "0", COLON, "0", "5", SP, SEMI, "x">>,
                                             \* 1:00:05 = 3605, then a comment
    HT \o <<SP, "x">>,                       \* one part
    HT \o <<SP, "1", COLON, "x">>,           \* two parts, no integer
    HT \o <<SP, "1", COLON, "x", COLON, "0">>,
    HT \o <<SP, "1", COLON, "2", COLON, "3", COLON, "4">>,
    HT \o <<"x", SP, "0", COLON, "1", "0">>, \* "Hydraulic Timestepx 0:10"
    <<"Pattern", SP, "Timestep", SP, "2", COLON, "0", "0">>,
    <<LB>> }

\* Lines of the [OPTIONS] section.
OptionsLines ==
  { Hdr("OPTIONS"),
    <<"Quality">>,                           \* no second token
    <<"Quality", SP, "NONE">>,
    <<"quality", SP, "none", SP, SEMI, "AGE">>,
    <<SP, "QUALITY", SP, "Chemical", SP, "x">>,
    <<"Quality", SP, "AGE">>,
    <<"Quality", "x", SP, "AGE">>,           \* "Qualityx AGE"
    <<"Units", SP, "Quality">>,
    <<LB>> }

RECURSIVE Join(_)
Join(lines) ==
  IF lines = <<>> THEN <<>>
  ELSE IF Len(lines) = 1 THEN lines[1]
  ELSE lines[1] \o <<NL>> \o Join(Tail(lines))

SeqsUpTo(S, n) == UNION {[1..k -> S] : k \in 0..n}

TextsOf(Lines) == {Join(ls) : ls \in SeqsUpTo(Lines, MaxLines)}

File(content) == [readable |-> TRUE, content |-> content]
Unreadable == [readable |-> FALSE, content |-> <<>>]


NoCall == [op |-> "none", arg |-> <<>>, ret |-> "none"]
NoFile == [written |-> "no", config |-> <<>>]
NoArgs == [inputs |-> <<>>, outputs |-> <<>>, quality |-> FALSE]

\* Files of the builder and of main.  Element IDs are digits.

\* All seven sections; quality off; default timestep.
Network1 ==
  File(Join(<< Hdr("JUNCTIONS"), <<"1">>, <<"8">>, Hdr("RESERVOIRS"), <<"2">>,
               Hdr("TANKS"), <<"3">>, Hdr("PIPES"), <<"4">>, Hdr("PUMPS"), <<"5">>,
               Hdr("VALVES"), <<"6">>, Hdr("PATTERNS"), <<"7">> >>))

\* IDs shared between sections: 1 is a junction, a pipe and a pattern, 4 a pipe
\* and a pattern; quality on; timestep 300.
Network2 ==
  File(Join(<< Hdr("JUNCTIONS"), <<"1">>, Hdr("PIPES"), <<"1">>, <<"4">>,
               Hdr("PATTERNS"), <<"1">>, <<"4">>, <<"7">>,
               Hdr("OPTIONS"), <<"Quality", SP, "AGE">>,
               Hdr("TIMES"), HT \o <<SP, "0", COLON, "0", "5">> >>))

\* A timestep that int() rejects, in a model with quality on.
Network3 ==
  File(Join(<< Hdr("JUNCTIONS"), <<"1">>, Hdr("OPTIONS"), <<"Quality", SP, "AGE">>,
               Hdr("TIMES"), HT \o <<SP, "1", COLON, "x">> >>))

\* No section at all.
Network0 == File(<<>>)

BuilderFiles == {Network0, Network1, Network2}
MainFiles == {Network1, Network2, Network3, Unreadable}

Str(id, property_name) == <<id, COLON, property_name>>

\* Arguments of add_input and add_output.
ElementSpecs ==
  { Str("1", "DEMAND"), Str("4", "STATUS"), Str("7", "MULTIPLIER"),
    Str("1", "PRESSURE"), Str("1", "VOLTAGE"), Str("0", "VOLTAGE"),
    Str("0", "DEMAND"), Str("7", "QUALITY"), Str("4", "MULTIPLIER"),
    <<"1">>, <<"1", COLON, "DEMAND", COLON>> }

ParseFiles ==
  {File(t) : t \in TextsOf(SectionLines) \cup TextsOf(TimesLines) \cup TextsOf(OptionsLines)}
    \cup {Unreadable, Network0, Network1, Network2, Network3}

----------------------------------------------------------------------------
(* The parser alone: parse() applied once to a file. *)

ParseInit ==
  /\ inp_file \in ParseFiles
  /\ parser = NewParser
  /\ parse_ret = "none"
  /\ inputs = <<>>
  /\ outputs = <<>>
  /\ last = NoCall
  /\ out_file = NoFile
  /\ args = NoArgs
  /\ pc = "parse"
  /\ exit_code = -1

Parse ==
  /\ pc = "parse"
  /\ parse_ret = "none"
  /\ \E r \in {parse(parser, inp_file)} :
        /\ parser' = r.parser
        /\ parse_ret' = r.ret
  /\ pc' = "parsed"
  /\ UNCHANGED <<inp_file, inputs, outputs, last, out_file, args, exit_code>>

ParseNext == Parse

ParseSpec == ParseInit /\ [][ParseNext]_vars

----------------------------------------------------------------------------
(* The builder: a MappingGenerator over a parsed model, called freely until  *)
(* generate_json.                                                          *)

Init ==
  /\ inp_file \in BuilderFiles
  /\ parser = parse(NewParser, inp_file).parser
  /\ parse_ret = "True"
  /\ inputs = <<>>
  /\ outputs = <<>>
  /\ last = NoCall
  /\ out_file = NoFile
  /\ args = NoArgs
  /\ pc = "build"
  /\ exit_code = -1

AddInput(element_spec) ==
  /\ pc = "build"
  /\ Len(inputs) < MaxEntries
  /\ \E r \in {add_input(parser, inputs, element_spec)} :
        /\ inputs' = r.inputs
        /\ last' = [op |-> "add_input", arg |-> element_spec, ret |-> r.ret]
  /\ UNCHANGED <<inp_file, parser, parse_ret, outputs, out_file, args, pc, exit_code>>

AddOutput(element_spec) ==
  /\ pc = "build"
  /\ Len(outputs) < MaxEntries
  /\ \E r \in {add_output(parser, outputs, element_spec)} :
        /\ outputs' = r.outputs
        /\ last' = [op |-> "add_output", arg |-> element_spec, ret |-> r.ret]
  /\ UNCHANGED <<inp_file, parser, parse_ret, inputs, out_file, args, pc, exit_code>>

GenerateDefaultOutputs(include_quality) ==
  /\ pc = "build"
  /\ Len(outputs) < MaxEntries
  /\ outputs' = generate_default_outputs(parser, outputs, include_quality)
  /\ last' = [op |-> "generate_default_outputs",
              arg |-> IF include_quality THEN <<"quality">> ELSE <<>>,
              ret |-> "None"]
  /\ UNCHANGED <<inp_file, parser, parse_ret, inputs, out_file, args, pc, exit_code>>

GenerateJson(outcome) ==
  /\ pc = "build"
  /\ \E r \in {generate_json(parser, inputs, outputs, out_file, outcome)} :
        /\ out_file' = r.out_file
        /\ last' = [op |-> "generate_json", arg |-> <<>>, ret |-> r.ret]
  /\ pc' = "built"
  /\ UNCHANGED <<inp_file, parser, parse_ret, inputs, outputs, args, exit_code>>

Next ==
  \/ \E element_spec \in ElementSpecs : AddInput(element_spec)
  \/ \E element_spec \in ElementSpecs : AddOutput(element_spec)
  \/ \E include_quality \in BOOLEAN : GenerateDefaultOutputs(include_quality)
  \/ \E outcome \in WriteOutcomes : GenerateJson(outcome)

Spec == Init /\ [][Next]_vars

----------------------------------------------------------------------------
(* main: one run of the command line tool. *)

\* Values of --input: valid, a property no input table has, no colon.
MainInputSpecs == { Str("1", "DEMAND"), Str("1", "PRESSURE"), <<"1">> }
\* Values of --output: two valid ones, an unknown element.
MainOutputSpecs == { Str("1", "PRESSURE"), Str("4", "STATUS"), Str("0", "DEMAND") }

MainInit ==
  /\ inp_file \in MainFiles
  /\ parser = NewParser
  /\ parse_ret = "none"
  /\ inputs = <<>>
  /\ outputs = <<>>
  /\ last = NoCall
  /\ out_file = NoFile
  /\ args \in [inputs : SeqsUpTo(MainInputSpecs, MaxArgs),
               outputs : SeqsUpTo(MainOutputSpecs, MaxArgs),
               quality : BOOLEAN]
  /\ pc = "parse"
  /\ exit_code = -1

\* Where main goes once i of the --input values are added.
AfterInputs(i) == IF i < Len(args.inputs) THEN "inputs" ELSE "outputs"
\* Where main goes once i of the --output values are added.
AfterOutputs(i) == IF i < Len(args.outputs) THEN "outputs" ELSE "write"

\* inp_parser.parse(): "return 1" when it returns False.  A ValueError is caught
\* nowhere: the interpreter prints the traceback and exits with status 1.
MainParse ==
  /\ pc = "parse"
  /\ \E r \in {parse(parser, inp_file)} :
        /\ parser' = r.parser
        /\ parse_ret' = r.ret
        /\ IF r.ret = "True"
           THEN pc' = AfterInputs(0) /\ exit_code' = exit_code
           ELSE pc' = "done" /\ exit_code' = 1
  /\ UNCHANGED <<inp_file, inputs, outputs, last, out_file, args>>

\* One iteration of "for input_spec in args.inputs".
MainAddInput ==
  /\ pc = "inputs"
  /\ Len(inputs) < Len(args.inputs)
  /\ \E input_spec \in {args.inputs[Len(inputs) + 1]} :
     \E r \in {add_input(parser, inputs, input_spec)} :
        /\ inputs' = r.inputs
        /\ last' = [op |-> "add_input", arg |-> input_spec, ret |-> r.ret]
        /\ IF r.ret = "True"
           THEN pc' = AfterInputs(Len(inputs) + 1) /\ exit_code' = exit_code
           ELSE pc' = "done" /\ exit_code' = 1
  /\ UNCHANGED <<inp_file, parser, parse_ret, outputs, out_file, args>>

\* Mutant: a refused --output value ends the loop instead of the run.
MainAddOutputBreaks ==
  /\ pc = "outputs"
  /\ args.outputs # <<>>
  /\ Len(outputs) < Len(args.outputs)
  /\ \E output_spec \in {args.outputs[Len(outputs) + 1]} :
     \E r \in {add_output(parser, outputs, output_spec)} :
        /\ outputs' = r.outputs
        /\ last' = [op |-> "add_output", arg |-> output_spec, ret |-> r.ret]
        /\ pc' = IF r.ret = "True" THEN AfterOutputs(Len(outputs) + 1) ELSE "write"
        /\ exit_code' = exit_code
  /\ UNCHANGED <<inp_file, parser, parse_ret, inputs, out_file, args>>

\* One iteration of "for output_spec in args.outputs".
MainAddOutput ==
  /\ pc = "outputs"
  /\ args.outputs # <<>>
  /\ Len(outputs) < Len(args.outputs)
  /\ \E output_spec \in {args.outputs[Len(outputs) + 1]} :
     \E r \in {add_output(parser, outputs, output_spec)} :
        /\ outputs' = r.outputs
        /\ last' = [op |-> "add_output", arg |-> output_spec, ret |-> r.ret]
        /\ IF r.ret = "True"
           THEN pc' = AfterOutputs(Len(outputs) + 1) /\ exit_code' = exit_code
           ELSE pc' = "done" /\ exit_code' = 1
  /\ UNCHANGED <<inp_file, parser, parse_ret, inputs, out_file, args>>

\* The else branch of "if args.outputs".
MainDefaultOutputs ==
  /\ pc = "outputs"
  /\ args.outputs = <<>>
  /\ outputs' = generate_default_outputs(parser, outputs, args.quality)
  /\ last' = [op |-> "generate_default_outputs",
              arg |-> IF args.quality THEN <<"quality">> ELSE <<>>,
              ret |-> "None"]
  /\ pc' = "write"
  /\ UNCHANGED <<inp_file, parser, parse_ret, inputs, out_file, args, exit_code>>

\* generator.generate_json(...) and the return of main.
MainGenerateJson(outcome) ==
  /\ pc = "write"
  /\ \E r \in {generate_json(parser, inputs, outputs, out_file, outcome)} :
        /\ out_file' = r.out_file
        /\ last' = [op |-> "generate_json", arg |-> <<>>, ret |-> r.ret]
        /\ exit_code' = IF r.ret = "True" THEN 0 ELSE 1
  /\ pc' = "done"
  /\ UNCHANGED <<inp_file, parser, parse_ret, inputs, outputs, args>>

MainNext ==
  \/ MainParse
  \/ MainAddInput
  \/ MainAddOutput
  \/ MainDefaultOutputs
  \/ \E outcome \in WriteOutcomes : MainGenerateJson(outcome)

MainSpec == MainInit /\ [][MainNext]_vars

----------------------------------------------------------------------------
(* Properties of the builder (Spec) *)

\* The element ID and the property of "ID:PROPERTY", read off the positions of
\* the colons.
Colons(element_spec) == {i \in 1..Len(element_spec) : element_spec[i] = COLON}
OneColon(element_spec) == Cardinality(Colons(element_spec)) = 1
IdOf(element_spec) ==
  SubSeq(element_spec, 1, (CHOOSE i \in Colons(element_spec) : TRUE) - 1)
PropertyOf(element_spec) ==
  SubSeq(element_spec, (CHOOSE i \in Colons(element_spec) : TRUE) + 1, Len(element_spec))

Members(list) == {list[i] : i \in 1..Len(list)}
NodeIds == Members(parser.junctions) \cup Members(parser.reservoirs) \cup Members(parser.tanks)
LinkIds == Members(parser.pipes) \cup Members(parser.pumps) \cup Members(parser.valves)
PatternIds == Members(parser.patterns)

\* NODE before LINK before PATTERN.
ResolvedType(id) ==
  IF id \in NodeIds THEN "NODE"
  ELSE IF id \in LinkIds THEN "LINK"
  ELSE IF id \in PatternIds THEN "PATTERN"
  ELSE "unknown"

\* The property compatibility tables.
InputTable ==
  [NODE |-> {<<"DEMAND">>}, LINK |-> {<<"STATUS">>, <<"SETTING">>},
   PATTERN |-> {<<"MULTIPLIER">>}, unknown |-> {}]
OutputTable ==
  [NODE |-> {<<"PRESSURE">>, <<"HEAD">>, <<"DEMAND">>, <<"TANKLEVEL">>, <<"QUALITY">>},
   LINK |-> {<<"FLOW">>, <<"VELOCITY">>, <<"HEADLOSS">>, <<"STATUS">>, <<"SETTING">>,
             <<"QUALITY">>},
   PATTERN |-> {}, unknown |-> {}]

ValidInputSpec(element_spec) ==
  /\ OneColon(element_spec)
  /\ IdOf(element_spec) \in NodeIds \cup LinkIds \cup PatternIds
  /\ PropertyOf(element_spec) \in InputTable[ResolvedType(IdOf(element_spec))]

ValidOutputSpec(element_spec) ==
  /\ OneColon(element_spec)
  /\ IdOf(element_spec) \in NodeIds \cup LinkIds \cup PatternIds
  /\ PropertyOf(element_spec) \in OutputTable[ResolvedType(IdOf(element_spec))]

IsPrefix(s, t) == Len(s) <= Len(t) /\ \A i \in 1..Len(s) : s[i] = t[i]

\* C1: the Configuration written by generate_json has the ElapsedTime entry at
\* inputs[0], input_count and output_count equal to the lengths of its lists,
\* and every entry's index equal to its (0-based) position.
C1_ConfigurationInvariant ==
  out_file.written = "complete" =>
    LET c == out_file.config[1]
    IN /\ c.inputs[1] = [index |-> 0, name |-> <<"ElapsedTime">>,
                         object_type |-> "SYSTEM", property |-> <<"ELAPSEDTIME">>]
       /\ c.input_count = Len(c.inputs)
       /\ c.output_count = Len(c.outputs)
       /\ \A i \in 1..Len(c.inputs) : c.inputs[i].index = i - 1
       /\ \A i \in 1..Len(c.outputs) : c.outputs[i].index = i - 1

\* A configuration written after two added inputs, an explicit output and the
\* default outputs.
C1_Witness ==
  /\ out_file.written = "complete"
  /\ out_file.config[1].input_count = 3
  /\ out_file.config[1].output_count > 2
  /\ out_file.config[1].outputs[1].property = <<"DEMAND">>
  /\ \E i \in 1..Len(outputs) : outputs[i].property = <<"TANKLEVEL">>

\* What generate_default_outputs is to append to an empty list, as
\* (name, object_type, property) by position.
Triple(e) == <<e.name, e.object_type, e.property>>
DefaultTriples(include_quality) ==
  LET t == parser.tanks
      j == parser.junctions
      l == parser.pipes \o parser.pumps \o parser.valves
      n == parser.junctions \o parser.reservoirs \o parser.tanks
      base == [i \in 1..(Len(t) + Len(j) + Len(l)) |->
                 IF i <= Len(t) THEN <<t[i], "NODE", <<"TANKLEVEL">>>>
                 ELSE IF i <= Len(t) + Len(j) THEN <<j[i - Len(t)], "NODE", <<"PRESSURE">>>>
                 ELSE <<l[i - Len(t) - Len(j)], "LINK", <<"FLOW">>>>]
      quality == [i \in 1..(Len(n) + Len(l)) |->
                    IF i <= Len(n) THEN <<n[i], "NODE", <<"QUALITY">>>>
                    ELSE <<l[i - Len(n)], "LINK", <<"QUALITY">>>>]
  IN IF include_quality THEN base \o quality ELSE base

\* C2: called on an empty output list, generate_default_outputs leaves exactly
\* tanks(TANKLEVEL), junctions(PRESSURE), links(FLOW) in pipes+pumps+valves
\* order, followed with include_quality by nodes(QUALITY) in
\* junctions+reservoirs+tanks order and links(QUALITY); without include_quality
\* that is |tanks|+|junctions|+|pipes|+|pumps|+|valves| entries.
C2_DefaultOutputsOrder ==
  [][(last'.op = "generate_default_outputs" /\ outputs = <<>>) =>
       /\ [i \in 1..Len(outputs') |-> Triple(outputs'[i])]
            = DefaultTriples(last'.arg = <<"quality">>)
       /\ (last'.arg = <<>> =>
             Len(outputs') = Len(parser.tanks) + Len(parser.junctions) + Len(parser.pipes)
                               + Len(parser.pumps) + Len(parser.valves))]_vars

\* Default outputs with quality generated on the empty list of a model that has
\* a reservoir, a pump and a valve.
C2_Witness ==
  /\ last.op = "generate_default_outputs"
  /\ last.arg = <<"quality">>
  /\ parser.reservoirs # <<>> /\ parser.pumps # <<>> /\ parser.valves # <<>>
  /\ Len(outputs) = Len(parser.tanks) + 2 * Len(parser.junctions) + Len(parser.reservoirs)
                      + Len(parser.tanks)
                      + 2 * (Len(parser.pipes) + Len(parser.pumps) + Len(parser.valves))

\* C3: add_input succeeds exactly when the spec has exactly one colon, the ID is
\* in some category and the property is in the input table of the resolved type
\* (NODE before LINK before PATTERN); on success exactly one entry
\* {previous count + 1, ID, resolved type, PROPERTY} is appended.
C3_AddInput ==
  [][last'.op = "add_input" =>
       /\ (last'.ret = "True") <=> ValidInputSpec(last'.arg)
       /\ (last'.ret = "True" =>
             inputs' = Append(inputs, [index |-> Len(inputs) + 1,
                                       name |-> IdOf(last'.arg),
                                       object_type |-> ResolvedType(IdOf(last'.arg)),
                                       property |-> PropertyOf(last'.arg)]))]_vars

\* A second input added for an ID that is a junction, a pipe and a pattern.
C3_Witness ==
  /\ last.op = "add_input" /\ last.ret = "True"
  /\ Len(inputs) = 2
  /\ inputs[1].index = 1
  /\ inputs[2].name \in NodeIds \cap LinkIds \cap PatternIds
  /\ inputs[2].object_type = "NODE"

\* C4: add_output succeeds only if the property is in the output table of the
\* type the ID resolves to; so VOLTAGE never succeeds, and neither does an ID
\* that resolves to PATTERN.
C4_AddOutputTable ==
  (last.op = "add_output" /\ last.ret = "True") =>
    /\ OneColon(last.arg)
    /\ PropertyOf(last.arg) \in OutputTable[ResolvedType(IdOf(last.arg))]
    /\ PropertyOf(last.arg) # <<"VOLTAGE">>
    /\ ResolvedType(IdOf(last.arg)) # "PATTERN"

\* After a LINK output was added, add_output is refused for a pattern with a
\* property of the NODE and LINK tables.
C4_Witness ==
  /\ last.op = "add_output" /\ last.ret = "False"
  /\ OneColon(last.arg)
  /\ ResolvedType(IdOf(last.arg)) = "PATTERN"
  /\ PropertyOf(last.arg) = <<"QUALITY">>
  /\ outputs # <<>>
  /\ outputs[1].object_type = "LINK"

\* C5: a failed add_input or add_output (wrong colon count, unknown ID, property
\* not in the table) returns failure and leaves both lists as they were; no
\* builder operation removes, reorders or modifies an entry appended earlier.
C5_FailureLeavesLists ==
  [][/\ IsPrefix(inputs, inputs')
     /\ IsPrefix(outputs, outputs')
     /\ (last'.op = "add_input" /\ ~ValidInputSpec(last'.arg) =>
           last'.ret = "False" /\ inputs' = inputs /\ outputs' = outputs)
     /\ (last'.op = "add_output" /\ ~ValidOutputSpec(last'.arg) =>
           last'.ret = "False" /\ inputs' = inputs /\ outputs' = outputs)
     /\ (last'.op \in {"add_input", "add_output"} /\ last'.ret = "False" =>
           inputs' = inputs /\ outputs' = outputs)]_vars

\* add_output refused for an unknown element after an input and an output were
\* added.
C5_Witness ==
  /\ last.op = "add_output" /\ last.ret = "False"
  /\ OneColon(last.arg)
  /\ ResolvedType(IdOf(last.arg)) = "unknown"
  /\ PropertyOf(last.arg) = <<"DEMAND">>
  /\ inputs # <<>>
  /\ outputs # <<>>

----------------------------------------------------------------------------
(* Properties of main (MainSpec) *)

BadInputs == {i \in 1..Len(args.inputs) : ~ValidInputSpec(args.inputs[i])}
BadOutputs == {i \in 1..Len(args.outputs) : ~ValidOutputSpec(args.outputs[i])}

\* C6: the output file is written only after the parse and every --input and
\* --output value succeeded; a failed parse or a refused value ends the run
\* with exit code 1, no later value processed and the file never written; exit
\* code 0 only after a successful write, 1 after a failed one.
C6_WriteOnlyAfterValidation ==
  /\ out_file.written # "no" =>
       /\ parse_ret = "True"
       /\ BadInputs = {} /\ BadOutputs = {}
       /\ Len(inputs) = Len(args.inputs)
       /\ (args.outputs # <<>> => Len(outputs) = Len(args.outputs))
  /\ (pc = "done" /\ parse_ret # "True") =>
       /\ exit_code = 1 /\ out_file.written = "no"
       /\ inputs = <<>> /\ outputs = <<>> /\ last = NoCall
  /\ (pc = "done" /\ parse_ret = "True" /\ BadInputs # {}) =>
       /\ exit_code = 1 /\ out_file.written = "no"
       /\ Len(inputs) = Min(BadInputs) - 1 /\ outputs = <<>>
       /\ last = [op |-> "add_input", arg |-> args.inputs[Min(BadInputs)], ret |-> "False"]
  /\ (pc = "done" /\ parse_ret = "True" /\ BadInputs = {} /\ BadOutputs # {}) =>
       /\ exit_code = 1 /\ out_file.written = "no"
       /\ Len(outputs) = Min(BadOutputs) - 1
       /\ last = [op |-> "add_output", arg |-> args.outputs[Min(BadOutputs)], ret |-> "False"]
  /\ exit_code = 0 =>
       /\ pc = "done" /\ out_file.written = "complete"
       /\ last = [op |-> "generate_json", arg |-> <<>>, ret |-> "True"]
  /\ (last.op = "generate_json" /\ last.ret = "False") =>
       exit_code = 1 /\ out_file.written # "complete"
  /\ pc = "done" => exit_code \in {0, 1}
  /\ pc # "done" => exit_code = -1

\* A run ended by its first --input value, with a valid --input and --output
\* values still to come.
C6_Witness ==
  /\ pc = "done" /\ exit_code = 1
  /\ last.op = "add_input" /\ last.ret = "False"
  /\ Len(args.inputs) = 2
  /\ BadInputs = {1}
  /\ args.outputs # <<>> /\ BadOutputs = {}
  /\ out_file.written = "no"

----------------------------------------------------------------------------
(* Properties of the parser (ParseSpec) *)

\* Where the body of section [word] lies in text t: after the first header,
\* up to the character before the first "\n[" that follows.
HeaderAt(t, word) ==
  {i \in 1..(Len(t) - 2) : t[i] = LB /\ Upper(t[i + 1]) = word /\ t[i + 2] = RB}
BodyFirst(t, word) == Min(HeaderAt(t, word)) + 3
BodyLast(t, word) ==
  LET ends == {k \in BodyFirst(t, word)..(Len(t) - 1) : t[k] = NL /\ t[k + 1] = LB}
  IN IF ends = {} THEN Len(t) ELSE Min(ends) - 1

Blank == {" ", "\t"}

\* The IDs section [word] of text t is to yield: the first tokens of its body
\* lines, by the positions where such a token starts.
ExpectedIds(t, word) ==
  IF HeaderAt(t, word) = {} THEN <<>>
  ELSE
    With(<<BodyFirst(t, word), BodyLast(t, word)>>,
         LAMBDA be :
           LET b == be[1]
               e == be[2]
               \* k starts the first token of its line: only blanks between the
               \* start of the line and k
               Starts == {k \in b..e :
                            /\ t[k] \notin Blank \cup {NL, SEMI}
                            /\ \E ls \in b..k :
                                 /\ ls = b \/ t[ls - 1] = NL
                                 /\ \A j \in ls..(k - 1) : t[j] \in Blank}
               \* the token runs to the next blank, newline or ';'
               TokenAt(k) ==
                 LET stops == {j \in k..e : t[j] \in Blank \cup {NL, SEMI}}
                 IN SubSeq(t, k, IF stops = {} THEN e ELSE Min(stops) - 1)
               Nth(i) == CHOOSE k \in Starts : Cardinality({j \in Starts : j < k}) = i - 1
           IN [i \in 1..Cardinality(Starts) |-> TokenAt(Nth(i))])

\* C9: each parsed category is the sequence of first tokens of the lines of its
\* section's body, in file order, duplicates kept, comments discarded; empty
\* when the header is absent.  (The timestep is parsed after the seven lists,
\* so this holds for every readable file.)
C9_SectionIds ==
  (pc = "parsed" /\ inp_file.readable) =>
    /\ parser.junctions = ExpectedIds(inp_file.content, "JUNCTIONS")
    /\ parser.reservoirs = ExpectedIds(inp_file.content, "RESERVOIRS")
    /\ parser.tanks = ExpectedIds(inp_file.content, "TANKS")
    /\ parser.pipes = ExpectedIds(inp_file.content, "PIPES")
    /\ parser.pumps = ExpectedIds(inp_file.content, "PUMPS")
    /\ parser.valves = ExpectedIds(inp_file.content, "VALVES")
    /\ parser.patterns = ExpectedIds(inp_file.content, "PATTERNS")

\* "[junctions] a" / " ba;a" / "[TANKS]": IDs in file order, the comment
\* discarded, the body ended by the next header.
C9_Witness ==
  /\ pc = "parsed"
  /\ parser.junctions = << <<"a">>, <<"b", "a">> >>
  /\ \E i \in 1..Len(inp_file.content) : inp_file.content[i] = SEMI
  /\ HeaderAt(inp_file.content, "TANKS") # {}
  /\ parser.tanks = <<>>

\* The tokens of the lines of section [word], comments removed.
BodyLines(t, word) ==
  IF HeaderAt(t, word) = {} THEN <<>>
  ELSE Split(SubSeq(t, BodyFirst(t, word), BodyLast(t, word)), NL)
LineTokens(line) == SplitWS(Split(line, SEMI)[1])
BodyTokens(t, word) ==
  With(BodyLines(t, word), LAMBDA ls : [i \in 1..Len(ls) |-> LineTokens(ls[i])])

\* H:MM or H:MM:SS with integer parts, and its seconds.
IsInteger(s) == s # <<>> /\ \A i \in 1..Len(s) : s[i] \in Digits
ValidDuration(token) ==
  LET parts == Split(token, COLON)
  IN Len(parts) \in {2, 3} /\ \A i \in 1..Len(parts) : IsInteger(parts[i])
Seconds(token) ==
  LET parts == Split(token, COLON)
  IN IntVal(parts[1]) * 3600 + IntVal(parts[2]) * 60
       + (IF Len(parts) = 3 THEN IntVal(parts[3]) ELSE 0)

\* A line that re.match(r'Hydraulic\s+Timestep') accepts: first token
\* "Hydraulic", second token beginning with "Timestep".
StartsHydraulicTimestep(tokens) ==
  /\ Len(tokens) >= 2
  /\ UpperStr(tokens[1]) = <<"HYDRAULIC">>
  /\ Upper(tokens[2][1]) = "TIMESTEP"
\* A line whose first two tokens are "Hydraulic" and "Timestep".
IsHydraulicTimestep(tokens) ==
  /\ Len(tokens) >= 2
  /\ UpperStr(tokens[1]) = <<"HYDRAULIC">>
  /\ UpperStr(tokens[2]) = <<"TIMESTEP">>

\* C7: parse never fails on malformed content; in particular, when no
\* "Hydraulic Timestep" line of the TIMES section has a valid duration as its
\* third token, parse returns True and the timestep is 3600.
C7_ParseNeverFails ==
  (pc = "parsed" /\ inp_file.readable) =>
    /\ parse_ret = "True"
    /\ With(BodyTokens(inp_file.content, "TIMES"),
            LAMBDA tk :
              (\A i \in 1..Len(tk) :
                 (StartsHydraulicTimestep(tk[i]) /\ Len(tk[i]) >= 3)
                   => ~ValidDuration(tk[i][3]))
                => parser.hydraulic_timestep = 3600)

\* The timestep by the first line whose first two tokens are "Hydraulic"
\* "Timestep": its third token's seconds, 3600 without a valid third token.
ClaimedTimestep(t) ==
  With(BodyTokens(t, "TIMES"),
       LAMBDA tk :
         LET matching == {i \in 1..Len(tk) : IsHydraulicTimestep(tk[i])}
         IN IF matching = {} THEN 3600
            ELSE LET first == tk[Min(matching)]
                 IN IF Len(first) >= 3 /\ ValidDuration(first[3])
                    THEN Seconds(first[3]) ELSE 3600)

\* The timestep by the first line that starts with "Hydraulic", whitespace,
\* "Timestep" and has at least three tokens.
FirstValuedTimestep(t) ==
  With(BodyTokens(t, "TIMES"),
       LAMBDA tk :
         LET matching == {i \in 1..Len(tk) :
                            StartsHydraulicTimestep(tk[i]) /\ Len(tk[i]) >= 3}
         IN IF matching = {} THEN 3600
            ELSE LET first == tk[Min(matching)]
                 IN IF ValidDuration(first[3]) THEN Seconds(first[3]) ELSE 3600)

\* C10 as claimed: only the first line whose first two tokens are "Hydraulic"
\* "Timestep" determines the timestep; without a parsable third token on that
\* line the timestep stays 3600.
C10_FirstMatchingLineOnly ==
  (pc = "parsed" /\ inp_file.readable) =>
    parser.hydraulic_timestep = ClaimedTimestep(inp_file.content)

\* C10 amended: only the first line that starts with "Hydraulic", whitespace,
\* "Timestep" and has at least three tokens determines the timestep; matching
\* lines with fewer tokens are skipped, later lines never change the result,
\* and an unparsable third token on that line leaves 3600.
C10_FirstValuedLineOnly ==
  (pc = "parsed" /\ inp_file.readable) =>
    parser.hydraulic_timestep = FirstValuedTimestep(inp_file.content)

\* A "Hydraulic Timestep" line without a value, then one with a value that is
\* taken.
C10_Witness ==
  /\ pc = "parsed"
  /\ parser.hydraulic_timestep = 300
  /\ With(BodyTokens(inp_file.content, "TIMES"),
          LAMBDA tk :
            /\ Len(tk) >= 3
            /\ IsHydraulicTimestep(tk[2]) /\ Len(tk[2]) = 2
            /\ IsHydraulicTimestep(tk[3]) /\ Len(tk[3]) = 3)

\* Quality by the first line whose first token is "Quality".
ClaimedQuality(t) ==
  With(BodyTokens(t, "OPTIONS"),
       LAMBDA tk :
         LET matching == {i \in 1..Len(tk) :
                            tk[i] # <<>> /\ UpperStr(tk[i][1]) = <<"QUALITY">>}
         IN /\ matching # {}
            /\ Len(tk[Min(matching)]) >= 2
            /\ UpperStr(tk[Min(matching)][2]) # <<"NONE">>)

\* Quality by the first line that starts with "Quality" and has a second token.
FirstValuedQuality(t) ==
  With(BodyTokens(t, "OPTIONS"),
       LAMBDA tk :
         LET matching == {i \in 1..Len(tk) :
                            Len(tk[i]) >= 2 /\ Upper(tk[i][1][1]) = "QUALITY"}
         IN /\ matching # {}
            /\ UpperStr(tk[Min(matching)][2]) # <<"NONE">>)

\* C8 as claimed: after parse, quality_enabled is true iff the OPTIONS section
\* has a line whose first token is "Quality" and the second token of the first
\* such line, uppercased, is not "NONE".
C8_QualityByFirstQualityToken ==
  (pc = "parsed" /\ inp_file.readable) =>
    parser.quality_enabled = ClaimedQuality(inp_file.content)

\* C8 amended: quality_enabled is true iff parse returned and the first line of
\* the OPTIONS section that starts with "Quality" and has at least two tokens
\* has a second token that, uppercased, is not "NONE".
C8_QualityByFirstValuedLine ==
  (pc = "parsed" /\ inp_file.readable) =>
    parser.quality_enabled
      = (parse_ret = "True" /\ FirstValuedQuality(inp_file.content))

\* Quality enabled by a line whose first token is longer than "Quality".
C8_Witness ==
  /\ pc = "parsed"
  /\ parser.quality_enabled
  /\ With(BodyTokens(inp_file.content, "OPTIONS"),
          LAMBDA tk :
            \A i \in 1..Len(tk) :
              tk[i] # <<>> => UpperStr(tk[i][1]) # <<"QUALITY">>)

----------------------------------------------------------------------------
(* The quality flag in main (MainSpec) *)

\* The QUALITY outputs of the parsed model: one per node, one per link.
QualityTriples ==
  {<<get_all_nodes(parser)[i], "NODE", <<"QUALITY">>>> :
     i \in 1..Len(get_all_nodes(parser))}
    \cup {<<get_all_links(parser)[i], "LINK", <<"QUALITY">>>> :
            i \in 1..Len(get_all_links(parser))}

\* The outputs of the written Configuration, as (name, type, property).
WrittenTriples ==
  {Triple(out_file.config[1].outputs[i]) : i \in 1..Len(out_file.config[1].outputs)}

\* C11: in a run with the quality flag on a model whose quality is disabled,
\* the run ends with 1 only for a refused --input or --output value or a failed
\* write, and the written Configuration has a NODE/QUALITY output for every
\* node and a LINK/QUALITY output for every link, with or without --output
\* values.
C11_QualityOutputsWritten ==
  (args.quality /\ parse_ret = "True" /\ ~parser.quality_enabled) =>
    /\ (pc = "done" /\ exit_code = 1) =>
         \/ BadInputs # {}
         \/ BadOutputs # {}
         \/ (last.op = "generate_json" /\ last.ret = "False")
    /\ out_file.written = "complete" => QualityTriples \subseteq WrittenTriples

----------------------------------------------------------------------------
(* Element IDs shared between sections (ParseSpec) *)

Categories ==
  {"junctions", "reservoirs", "tanks", "pipes", "pumps", "valves", "patterns"}
CategoryHeader ==
  [junctions |-> "JUNCTIONS", reservoirs |-> "RESERVOIRS", tanks |-> "TANKS",
   pipes |-> "PIPES", pumps |-> "PUMPS", valves |-> "VALVES", patterns |-> "PATTERNS"]

\* C12 as claimed: after parse the seven categories are pairwise disjoint, for
\* any input text.
C12_CategoriesDisjoint ==
  (pc = "parsed" /\ inp_file.readable) =>
    \A c1, c2 \in Categories :
      c1 # c2 => Members(parser[c1]) \cap Members(parser[c2]) = {}

\* C12 amended: the categories need not be disjoint; the IDs two categories
\* have in common are exactly the IDs that are first tokens in both of their
\* sections, none rejected and none removed.
C12_CategoriesShareSectionIds ==
  (pc = "parsed" /\ inp_file.readable) =>
    With([c \in Categories |-> Members(ExpectedIds(inp_file.content, CategoryHeader[c]))],
         LAMBDA in_section :
           \A c1, c2 \in Categories :
             c1 # c2 => Members(parser[c1]) \cap Members(parser[c2])
                          = in_section[c1] \cap in_section[c2])

\* An ID that is a junction, a pipe and a pattern at once.
C12_Witness ==
  /\ pc = "parsed" /\ parse_ret = "True"
  /\ Members(parser.junctions) \cap Members(parser.pipes)
       \cap Members(parser.patterns) # {}

====
